---- MODULE Spec2Model ----
(***************************************************************************)
(* A model of src/src/openai.rs: the schema post-processing of             *)
(* OpenAiClient::generate_schema, the request/response cycle of            *)
(* OpenAiClient::call_schema and the serde decoding of the response body   *)
(* (OpenAIResponse, ChatGPTResponse, Choice, Message, Content, Refusal,    *)
(* OpenAIError, deserialize_content).                                      *)
(***************************************************************************)
EXTENDS Integers, Sequences, FiniteSets, TLC

(***************************************************************************)
(* Bounds of the model.                                                    *)
(***************************************************************************)
\* longest choices list of a response body
MaxChoices == 2
\* longest Vec<String> of a target-shape instance
MaxLen == 2
\* calls issued through one client
MaxCalls == 2
\* nesting depth of the schema trees handed to generate_schema
MaxDepth == 2

(***************************************************************************)
(* Strings.  A string is a sequence of tokens, so that JSON text carried   *)
(* inside a JSON string can be parsed.  A token is a run of ordinary       *)
(* characters (k = "w"), a JSON punctuation mark or literal (k = "p"), or  *)
(* a quoted string literal with its own text (k = "q").                    *)
(***************************************************************************)
W(s) == <<[k |-> "w", c |-> s]>>
P(c) == [k |-> "p", c |-> c]
Q(text) == [k |-> "q", q |-> text]

(***************************************************************************)
(* JSON values (serde_json::Value).  An object is the sequence of its      *)
(* <<key, value>> members, keys being strings.                             *)
(***************************************************************************)
JNull == [t |-> "null"]
JBool(b) == [t |-> "bool", b |-> b]
JNum(n) == [t |-> "num", n |-> n]
JStr(s) == [t |-> "str", s |-> s]
JArr(a) == [t |-> "arr", a |-> a]
JObj(o) == [t |-> "obj", o |-> o]

HasKey(j, key) == j.t = "obj" /\ \E i \in 1..Len(j.o) : j.o[i][1] = key
Get(j, key) == j.o[CHOOSE i \in 1..Len(j.o) : j.o[i][1] = key][2]

Fail == [ok |-> FALSE]
Good(v) == [ok |-> TRUE, val |-> v]

(***************************************************************************)
(* serde_json::to_string of a Value: the JSON text of a value.             *)
(***************************************************************************)
RECURSIVE Encode(_), EncodeElems(_), EncodeMembers(_)
Encode(j) ==
  CASE j.t = "null" -> <<P("null")>>
    [] j.t = "bool" -> <<P(IF j.b THEN "true" ELSE "false")>>
    [] j.t = "num" -> <<P(IF j.n = 0 THEN "0" ELSE "7")>>
    [] j.t = "str" -> <<Q(j.s)>>
    [] j.t = "arr" -> <<P("[")>> \o EncodeElems(j.a) \o <<P("]")>>
    [] j.t = "obj" -> <<P("{")>> \o EncodeMembers(j.o) \o <<P("}")>>
EncodeElems(a) ==
  IF Len(a) = 0 THEN <<>>
  ELSE IF Len(a) = 1 THEN Encode(a[1])
  ELSE Encode(a[1]) \o <<P(",")>> \o EncodeElems(Tail(a))
EncodeMembers(o) ==
  IF Len(o) = 0 THEN <<>>
  ELSE IF Len(o) = 1 THEN <<Q(o[1][1]), P(":")>> \o Encode(o[1][2])
  ELSE <<Q(o[1][1]), P(":")>> \o Encode(o[1][2]) \o <<P(",")>>
         \o EncodeMembers(Tail(o))

(***************************************************************************)
(* serde_json::from_str: a recursive-descent parse of JSON text.  The      *)
(* whole text must be one value; trailing tokens are an error.             *)
(***************************************************************************)
IsP(tok, c) == tok.k = "p" /\ tok.c = c
Parsed(v, rest) == [ok |-> TRUE, val |-> v, rest |-> rest]

RECURSIVE ParseValue(_), ParseElems(_, _), ParseMembers(_, _)
ParseValue(toks) ==
  IF Len(toks) = 0 THEN Fail
  ELSE LET h == Head(toks)
           r == Tail(toks)
       IN  CASE h.k = "q" -> Parsed(JStr(h.q), r)
             [] h.k = "w" -> Fail
             [] h.k = "p" ->
                  CASE h.c = "null" -> Parsed(JNull, r)
                    [] h.c = "true" -> Parsed(JBool(TRUE), r)
                    [] h.c = "false" -> Parsed(JBool(FALSE), r)
                    [] h.c = "0" -> Parsed(JNum(0), r)
                    [] h.c = "7" -> Parsed(JNum(7), r)
                    [] h.c = "[" ->
                         IF Len(r) > 0 /\ IsP(Head(r), "]")
                         THEN Parsed(JArr(<<>>), Tail(r))
                         ELSE ParseElems(r, <<>>)
                    [] h.c = "{" ->
                         IF Len(r) > 0 /\ IsP(Head(r), "}")
                         THEN Parsed(JObj(<<>>), Tail(r))
                         ELSE ParseMembers(r, <<>>)
                    [] OTHER -> Fail
ParseElems(toks, acc) ==
  LET e == ParseValue(toks)
  IN  IF ~e.ok \/ Len(e.rest) = 0 THEN Fail
      ELSE IF IsP(Head(e.rest), ",")
           THEN ParseElems(Tail(e.rest), Append(acc, e.val))
      ELSE IF IsP(Head(e.rest), "]")
           THEN Parsed(JArr(Append(acc, e.val)), Tail(e.rest))
      ELSE Fail
ParseMembers(toks, acc) ==
  IF Len(toks) < 2 \/ toks[1].k # "q" \/ ~IsP(toks[2], ":") THEN Fail
  ELSE LET e == ParseValue(Tail(Tail(toks)))
           m == <<toks[1].q, e.val>>
       IN  IF ~e.ok \/ Len(e.rest) = 0 THEN Fail
           ELSE IF IsP(Head(e.rest), ",")
                THEN ParseMembers(Tail(e.rest), Append(acc, m))
           ELSE IF IsP(Head(e.rest), "}")
                THEN Parsed(JObj(Append(acc, m)), Tail(e.rest))
           ELSE Fail

from_str(text) ==
  LET p == ParseValue(text)
  IN  IF p.ok /\ Len(p.rest) = 0 THEN Good(p.val) ELSE Fail

(***************************************************************************)
(* Target shapes: the types T of call_schema::<T>.  A value of a struct    *)
(* is the sequence of its field values in declaration order, an Option is  *)
(* <<>> (None) or <<x>> (Some(x)), a Vec is a sequence.                    *)
(***************************************************************************)
TString == [k |-> "string"]
TOption(ty) == [k |-> "option", of |-> ty]
TVec(ty) == [k |-> "vec", of |-> ty]
TStruct(name, fields) == [k |-> "struct", name |-> name, fields |-> fields]
Field(name, ty) == [name |-> name, ty |-> ty]

\* src/src/main.rs: struct Review
Review ==
  TStruct("Review", <<Field(W("explanation"), TString),
                      Field(W("incorrect_words"), TOption(TVec(TString))),
                      Field(W("incorrect_grammars"), TOption(TVec(TString)))>>)
\* an array-like target shape
WordList == TVec(TString)

TargetShapes == {Review, WordList}

(***************************************************************************)
(* The response types of openai.rs, as shapes.  An untagged enum lists its *)
(* variants in declaration order; the field `content` of Content<T> is     *)
(* decoded by deserialize_content (serde(deserialize_with)).               *)
(***************************************************************************)
TUntagged(name, variants) == [k |-> "untagged", name |-> name, variants |-> variants]
Variant(tag, ty) == [tag |-> tag, ty |-> ty]
TWith(ty) == [k |-> "deserialize_content", of |-> ty]

Refusal == TStruct("Refusal", <<Field(W("refusal"), TString)>>)
Content(ty) == TStruct("Content", <<Field(W("content"), TWith(ty))>>)
\* fault: the variants of Message declared in the other order
MessageVariants_RefusalFirst(ty) ==
  <<Variant("Err", Refusal), Variant("Ok", Content(ty))>>
MessageVariants(ty) == <<Variant("Ok", Content(ty)), Variant("Err", Refusal)>>
Message(ty) == TUntagged("Message", MessageVariants(ty))
Choice(ty) == TStruct("Choice", <<Field(W("message"), Message(ty))>>)
ChatGPTResponse(ty) ==
  TStruct("ChatGPTResponse", <<Field(W("choices"), TVec(Choice(ty)))>>)
OpenAIErrorDetails ==
  TStruct("OpenAIErrorDetails", <<Field(W("message"), TString)>>)
OpenAIError == TStruct("OpenAIError", <<Field(W("error"), OpenAIErrorDetails)>>)
\* fault: the variants of OpenAIResponse declared in the other order
OpenAIResponseVariants_ErrorFirst(ty) ==
  <<Variant("Err", OpenAIError), Variant("Ok", ChatGPTResponse(ty))>>
OpenAIResponseVariants(ty) ==
  <<Variant("Ok", ChatGPTResponse(ty)), Variant("Err", OpenAIError)>>
OpenAIResponse(ty) == TUntagged("OpenAIResponse", OpenAIResponseVariants(ty))

(***************************************************************************)
(* <T as Deserialize>::deserialize from a self-describing value, as        *)
(* derived by serde: a String from a string; an Option from null or from   *)
(* its content; a Vec from an array; a struct from an object (unknown keys *)
(* ignored, a missing Option field is None, any other missing field an     *)
(* error) or from an array of its fields in order (visit_seq); an untagged *)
(* enum as the first variant, in declaration order, that decodes.          *)
(* deserialize_content is the ContentVisitor: it dispatches on the         *)
(* physical encoding and has no method for numbers, booleans and null.     *)
(***************************************************************************)
RECURSIVE FromValue(_, _), FromElems(_, _), FromFields(_, _, _), FromSeq(_, _)
RECURSIVE FromVariants(_, _), deserialize_content(_, _)
RECURSIVE visit_str(_, _), visit_map(_, _), visit_seq(_, _)
FromValue(ty, j) ==
  CASE ty.k = "string" -> IF j.t = "str" THEN Good(j.s) ELSE Fail
    [] ty.k = "option" ->
         IF j.t = "null" THEN Good(<<>>)
         ELSE LET r == FromValue(ty.of, j)
              IN  IF r.ok THEN Good(<<r.val>>) ELSE Fail
    [] ty.k = "vec" -> IF j.t = "arr" THEN FromElems(ty.of, j.a) ELSE Fail
    [] ty.k = "struct" ->
         IF j.t = "obj" THEN FromFields(ty.fields, j, <<>>)
         ELSE IF j.t = "arr" THEN FromSeq(ty.fields, j.a)
         ELSE Fail
    [] ty.k = "untagged" -> FromVariants(ty.variants, j)
    [] ty.k = "deserialize_content" -> deserialize_content(ty.of, j)
FromElems(ty, a) ==
  IF Len(a) = 0 THEN Good(<<>>)
  ELSE LET h == FromValue(ty, a[1])
           r == FromElems(ty, Tail(a))
       IN  IF h.ok /\ r.ok THEN Good(<<h.val>> \o r.val) ELSE Fail
FromFields(fields, j, acc) ==
  IF Len(fields) = 0 THEN Good(acc)
  ELSE LET f == fields[1]
       IN  IF HasKey(j, f.name)
           THEN LET r == FromValue(f.ty, Get(j, f.name))
                IN  IF r.ok THEN FromFields(Tail(fields), j, Append(acc, r.val))
                    ELSE Fail
           ELSE IF f.ty.k = "option"
                THEN FromFields(Tail(fields), j, Append(acc, <<>>))
           ELSE Fail
FromSeq(fields, a) ==
  IF Len(fields) # Len(a) THEN Fail
  ELSE IF Len(fields) = 0 THEN Good(<<>>)
  ELSE LET h == FromValue(fields[1].ty, a[1])
           r == FromSeq(Tail(fields), Tail(a))
       IN  IF h.ok /\ r.ok THEN Good(<<h.val>> \o r.val) ELSE Fail
\* fault: an enum that is decoded as its first variant only
FromVariants_FirstOnly(variants, j) ==
  IF Len(variants) = 0 THEN Fail
  ELSE LET r == FromValue(variants[1].ty, j)
       IN  IF r.ok THEN Good([variant |-> variants[1].tag, val |-> r.val])
           ELSE Fail
FromVariants(variants, j) ==
  IF Len(variants) = 0 THEN Fail
  ELSE LET r == FromValue(variants[1].ty, j)
       IN  IF r.ok THEN Good([variant |-> variants[1].tag, val |-> r.val])
           ELSE FromVariants(Tail(variants), j)

\* fault: the string taken as the value itself, not as JSON text
visit_str_unparsed(ty, text) == FromValue(ty, JStr(text))

\* visit_str / visit_string: the string is JSON text, parsed into T
visit_str(ty, text) ==
  LET p == from_str(text)
  IN  IF p.ok THEN FromValue(ty, p.val) ELSE Fail

\* visit_map: T::deserialize(MapAccessDeserializer), which hands T's visitor
\* a map whatever T asks for; only a visitor with visit_map accepts it
visit_map(ty, j) == IF ty.k = "struct" THEN FromValue(ty, j) ELSE Fail

\* visit_seq: T::deserialize(SeqAccessDeserializer), which hands T's visitor
\* a sequence whatever T asks for
visit_seq(ty, j) == IF ty.k \in {"vec", "struct"} THEN FromValue(ty, j) ELSE Fail

deserialize_content(ty, j) ==
  CASE j.t = "str" -> visit_str(ty, j.s)
    [] j.t = "obj" -> visit_map(ty, j)
    [] j.t = "arr" -> visit_seq(ty, j)
    [] OTHER -> Fail

(***************************************************************************)
(* schemars::schema: Schema, SchemaObject and its validation parts.  An    *)
(* Option is <<>> (None) or <<x>> (Some(x)); a BTreeMap is the sequence of *)
(* its <<key, value>> entries; SingleOrVec is tagged by sv.                *)
(***************************************************************************)
Single(x) == [sv |-> "single", one |-> x]
Many(xs) == [sv |-> "vec", many |-> xs]
BoolSchema(b) == [s |-> "bool", b |-> b]
ObjectSchema(so) == [s |-> "object", obj |-> so]
SchemaObject(it, ob, ar, su, ref) ==
  [instance_type |-> it, object |-> ob, array |-> ar, subschemas |-> su,
   reference |-> ref]
ObjectValidation(props, req, addl) ==
  [properties |-> props, required |-> req, additional_properties |-> addl]
\* ObjectValidation::default()
DefaultObjectValidation == ObjectValidation(<<>>, {}, <<>>)
ArrayValidation(items) == [items |-> items]
SubschemaValidation(all, any, one, not) ==
  [all_of |-> all, any_of |-> any, one_of |-> one, not |-> not]

Keys(m) == {m[i][1] : i \in 1..Len(m)}

(***************************************************************************)
(* OpenAiClient::set_no_additional_properties, in its four steps.          *)
(***************************************************************************)
RECURSIVE set_no_additional_properties(_), VisitSchema(_), VisitSchemas(_)
RECURSIVE VisitProperties(_)

\* `if let Schema::Object(ref mut nested_obj) = ...`: a Schema::Bool is left
VisitSchema(sch) ==
  IF sch.s = "object"
  THEN ObjectSchema(set_no_additional_properties(sch.obj))
  ELSE sch
VisitSchemas(schs) ==
  IF Len(schs) = 0 THEN <<>>
  ELSE <<VisitSchema(schs[1])>> \o VisitSchemas(Tail(schs))
VisitProperties(props) ==
  IF Len(props) = 0 THEN <<>>
  ELSE << <<props[1][1], VisitSchema(props[1][2])>> >>
         \o VisitProperties(Tail(props))
VisitOption(opt) == IF Len(opt) = 0 THEN <<>> ELSE <<VisitSchema(opt[1])>>
VisitOptionVec(opt) == IF Len(opt) = 0 THEN <<>> ELSE <<VisitSchemas(opt[1])>>

\* the test of step 1: instance_type is Some(SingleOrVec::Single(Object))
IsSingleObject(so) ==
  /\ Len(so.instance_type) = 1
  /\ so.instance_type[1].sv = "single"
  /\ so.instance_type[1].one = "object"

\* 1. type: object => additionalProperties = false, required = all keys
CloseObject(so) ==
  IF IsSingleObject(so)
  THEN LET ov == IF Len(so.object) = 0 THEN DefaultObjectValidation
                 ELSE so.object[1]
       IN  [so EXCEPT !.object =
              <<[ov EXCEPT !.additional_properties = <<BoolSchema(FALSE)>>,
                           !.required = Keys(ov.properties)]>>]
  ELSE so
\* 2. recurse into each property
RecurseProperties(so) ==
  IF Len(so.object) = 1
  THEN [so EXCEPT !.object[1].properties = VisitProperties(@)]
  ELSE so
\* 3. array items, a single schema or a tuple
RecurseItems(so) ==
  IF Len(so.array) = 1 /\ Len(so.array[1].items) = 1
  THEN LET it == so.array[1].items[1]
       IN  [so EXCEPT !.array[1].items =
              IF it.sv = "single" THEN <<Single(VisitSchema(it.one))>>
              ELSE <<Many(VisitSchemas(it.many))>>]
  ELSE so
\* 4. allOf, anyOf, oneOf, not
RecurseSubschemas(so) ==
  IF Len(so.subschemas) = 1
  THEN LET su == so.subschemas[1]
       IN  [so EXCEPT !.subschemas =
              <<SubschemaValidation(VisitOptionVec(su.all_of),
                                    VisitOptionVec(su.any_of),
                                    VisitOptionVec(su.one_of),
                                    VisitOption(su.not))>>]
  ELSE so

set_no_additional_properties(so) ==
  RecurseSubschemas(RecurseItems(RecurseProperties(CloseObject(so))))

(***************************************************************************)
(* serde_json::to_value(&root_schema): schemars' Serialize of a schema.    *)
(* None and empty collections are skipped (skip_serializing_if), so an     *)
(* empty `required` set is no key of the JSON object.                      *)
(***************************************************************************)
RECURSIVE SchemaJson(_), SchemasJson(_), EntriesJson(_)
NamesJson(names) ==
  LET RECURSIVE Pick(_)
      Pick(left) ==
        IF left = {} THEN <<>>
        ELSE LET n == CHOOSE x \in left : TRUE
             IN  <<JStr(W(n))>> \o Pick(left \ {n})
  IN  Pick(names)
TypesJson(tys) == [i \in 1..Len(tys) |-> JStr(W(tys[i]))]
OptMember(key, opt) ==
  IF Len(opt) = 0 THEN <<>> ELSE << <<W(key), SchemaJson(opt[1])>> >>
OptVecMember(key, opt) ==
  IF Len(opt) = 0 THEN <<>> ELSE << <<W(key), JArr(SchemasJson(opt[1]))>> >>
SchemaObjectMembers(so) ==
  (IF Len(so.instance_type) = 0 THEN <<>>
   ELSE IF so.instance_type[1].sv = "single"
        THEN << <<W("type"), JStr(W(so.instance_type[1].one))>> >>
   ELSE << <<W("type"), JArr(TypesJson(so.instance_type[1].many))>> >>)
  \o (IF Len(so.subschemas) = 0 THEN <<>>
      ELSE OptVecMember("allOf", so.subschemas[1].all_of)
           \o OptVecMember("anyOf", so.subschemas[1].any_of)
           \o OptVecMember("oneOf", so.subschemas[1].one_of)
           \o OptMember("not", so.subschemas[1].not))
  \o (IF Len(so.array) = 0 \/ Len(so.array[1].items) = 0 THEN <<>>
      ELSE IF so.array[1].items[1].sv = "single"
           THEN << <<W("items"), SchemaJson(so.array[1].items[1].one)>> >>
      ELSE << <<W("items"), JArr(SchemasJson(so.array[1].items[1].many))>> >>)
  \o (IF Len(so.object) = 0 THEN <<>>
      ELSE (IF so.object[1].required = {} THEN <<>>
            ELSE << <<W("required"), JArr(NamesJson(so.object[1].required))>> >>)
           \o (IF Len(so.object[1].properties) = 0 THEN <<>>
               ELSE << <<W("properties"),
                         JObj(EntriesJson(so.object[1].properties))>> >>)
           \o OptMember("additionalProperties",
                        so.object[1].additional_properties))
  \o (IF Len(so.reference) = 0 THEN <<>>
      ELSE << <<W("$ref"), JStr(W(so.reference[1]))>> >>)
SchemaJson(sch) ==
  IF sch.s = "bool" THEN JBool(sch.b) ELSE JObj(SchemaObjectMembers(sch.obj))
SchemasJson(schs) ==
  IF Len(schs) = 0 THEN <<>>
  ELSE <<SchemaJson(schs[1])>> \o SchemasJson(Tail(schs))
EntriesJson(m) ==
  IF Len(m) = 0 THEN <<>>
  ELSE << <<W(m[1][1]), SchemaJson(m[1][2])>> >> \o EntriesJson(Tail(m))

\* RootSchema: the root SchemaObject, flattened, and the definitions map
RootSchema(schema, definitions) == [schema |-> schema, definitions |-> definitions]
to_value(root) ==
  JObj(SchemaObjectMembers(root.schema)
       \o (IF Len(root.definitions) = 0 THEN <<>>
           ELSE << <<W("definitions"), JObj(EntriesJson(root.definitions))>> >>))

(***************************************************************************)
(* OpenAiClient::generate_schema_with_no_additional, from the RootSchema   *)
(* that schema_for!(T) derives.                                            *)
(***************************************************************************)
generate_schema_with_no_additional(root) ==
  to_value(RootSchema(set_no_additional_properties(root.schema),
                      VisitProperties(root.definitions)))
generate_schema(root) == generate_schema_with_no_additional(root)

(***************************************************************************)
(* schema_for!(T): the RootSchema schemars derives for a target shape.  A  *)
(* struct is an object whose required set is its non-Option fields; an     *)
(* Option adds "null" to the type of its content; a Vec is an array.       *)
(***************************************************************************)
TypedSchema(it, ob, ar) == ObjectSchema(SchemaObject(<<it>>, ob, ar, <<>>, <<>>))
FieldName(f) == f.name[1].c

RECURSIVE SubschemaFor(_), PropertiesFor(_)
SubschemaFor(ty) ==
  CASE ty.k = "string" -> TypedSchema(Single("string"), <<>>, <<>>)
    [] ty.k = "vec" ->
         TypedSchema(Single("array"), <<>>,
                     <<ArrayValidation(<<Single(SubschemaFor(ty.of))>>)>>)
    [] ty.k = "option" ->
         LET inner == SubschemaFor(ty.of).obj
         IN  ObjectSchema([inner EXCEPT !.instance_type =
                             <<Many(<<inner.instance_type[1].one, "null">>)>>])
    [] ty.k = "struct" ->
         TypedSchema(Single("object"),
                     <<ObjectValidation(
                         PropertiesFor(ty.fields),
                         {FieldName(ty.fields[i]) :
                            i \in {n \in 1..Len(ty.fields) :
                                     ty.fields[n].ty.k # "option"}},
                         <<>>)>>,
                     <<>>)
PropertiesFor(fields) ==
  IF Len(fields) = 0 THEN <<>>
  ELSE << <<FieldName(fields[1]), SubschemaFor(fields[1].ty)>> >>
         \o PropertiesFor(Tail(fields))
schema_for(ty) == RootSchema(SubschemaFor(ty).obj, <<>>)

(***************************************************************************)
(* OpenAiClient::schema_name_for_type.  A type name is a sequence of       *)
(* characters; every run of characters outside [a-zA-Z0-9_-] becomes one   *)
(* underscore, the result is lower-cased and suffixed.                     *)
(***************************************************************************)
\* std::any::type_name::<T>()
type_name(ty) ==
  IF ty.k = "struct"
  THEN <<"m", "a", "i", "n", ":", ":", "R", "e", "v", "i", "e", "w">>
  ELSE <<"V", "e", "c", "<", "S", "t", "r", "i", "n", "g", ">">>
LowerCase == <<"a", "c", "e", "g", "i", "m", "n", "r", "s", "t", "v", "w">>
UpperCase == <<"A", "C", "E", "G", "I", "M", "N", "R", "S", "T", "V", "W">>
InSeq(c, chars) == \E i \in 1..Len(chars) : chars[i] = c
IsNameChar(c) == InSeq(c, LowerCase) \/ InSeq(c, UpperCase) \/ c \in {"_", "-"}
to_lowercase(c) ==
  IF InSeq(c, UpperCase)
  THEN LowerCase[CHOOSE i \in 1..Len(UpperCase) : UpperCase[i] = c]
  ELSE c
RECURSIVE replace_all(_, _)
replace_all(chars, inRun) ==
  IF Len(chars) = 0 THEN <<>>
  ELSE IF IsNameChar(chars[1])
       THEN <<chars[1]>> \o replace_all(Tail(chars), FALSE)
  ELSE IF inRun THEN replace_all(Tail(chars), TRUE)
  ELSE <<"_">> \o replace_all(Tail(chars), TRUE)
schema_name_for_type(ty) ==
  LET sanitized == replace_all(type_name(ty), FALSE)
  IN  [i \in 1..Len(sanitized) |-> [k |-> "w", c |-> to_lowercase(sanitized[i])]]
        \o W("_response")

(***************************************************************************)
(* The request body of call_schema (json! at lines 178-202).               *)
(***************************************************************************)
RoleMessage(role, text) ==
  JObj(<< <<W("role"), JStr(W(role))>>, <<W("content"), JStr(text)>> >>)
RequestMessages(system_role, user_prompt) ==
  (IF Len(system_role) = 1 THEN <<RoleMessage("system", system_role[1])>>
   ELSE <<>>)
  \o <<RoleMessage("user", user_prompt)>>
RequestBody(cl, ty, user_prompt) ==
  JObj(<< <<W("model"), JStr(cl.model)>>,
          <<W("messages"), JArr(RequestMessages(cl.system_role, user_prompt))>>,
          <<W("response_format"),
            JObj(<< <<W("type"), JStr(W("json_schema"))>>,
                    <<W("json_schema"),
                      JObj(<< <<W("name"), JStr(schema_name_for_type(ty))>>,
                              <<W("strict"), JBool(TRUE)>>,
                              <<W("schema"), generate_schema(schema_for(ty))>>
                           >>)>> >>)>> >>)

(***************************************************************************)
(* What call_schema returns: Ok(content) or Err(Box<dyn Error>) holding a  *)
(* Refusal, an OpenAIError or a reqwest::Error (one from json() that could *)
(* not decode the body answers is_decode(), a transport failure does not). *)
(***************************************************************************)
Ok(v) == [kind |-> "Ok", val |-> v]
ErrRefusal(text) == [kind |-> "Refusal", refusal |-> text]
ErrOpenAIError(text) == [kind |-> "OpenAIError", message |-> text]
ErrReqwest(decode) == [kind |-> "reqwest", is_decode |-> decode]
NoOutcome == [kind |-> "none"]

\* impl fmt::Display for Refusal / for OpenAIError
DisplayRefusal(e) == W("LLM refusal: ") \o e.refusal
DisplayOpenAIError(e) == W("OpenAI Error: ") \o e.message

\* res.choices[0] of an empty Vec panics
Panics(resp) == resp.variant = "Ok" /\ Len(resp.val[1]) = 0
\* res.choices[0].message
FirstMessage(resp) == resp.val[1][1][1]
\* the match of call_schema on a decoded OpenAIResponse<T>
\* faults: an error that carries its Display text in place of the text
MatchResponse_RefusalDisplay(resp) ==
  IF resp.variant = "Ok"
  THEN LET message == FirstMessage(resp)
       IN  IF message.variant = "Ok" THEN Ok(message.val[1])
           ELSE ErrRefusal(DisplayRefusal(ErrRefusal(message.val[1])))
  ELSE ErrOpenAIError(resp.val[1][1])
MatchResponse_ErrorDisplay(resp) ==
  IF resp.variant = "Ok"
  THEN LET message == FirstMessage(resp)
       IN  IF message.variant = "Ok" THEN Ok(message.val[1])
           ELSE ErrRefusal(message.val[1])
  ELSE ErrOpenAIError(DisplayOpenAIError(ErrOpenAIError(resp.val[1][1])))
MatchResponse(resp) ==
  IF resp.variant = "Ok"
  THEN LET message == FirstMessage(resp)
       IN  IF message.variant = "Ok" THEN Ok(message.val[1])
           ELSE ErrRefusal(message.val[1])
  ELSE ErrOpenAIError(resp.val[1][1])

\* res.json::<OpenAIResponse<T>>() on a body that was read
json(ty, b) == FromValue(OpenAIResponse(ty), b)

(***************************************************************************)
(* Inputs.  Serialize of an instance of a target shape (ToValue), the      *)
(* instances of a shape, and the response bodies the upstream may send.    *)
(***************************************************************************)
RECURSIVE ToValue(_, _), ToElems(_, _), ToMembers(_, _)
ToValue(ty, v) ==
  CASE ty.k = "string" -> JStr(v)
    [] ty.k = "option" -> IF Len(v) = 0 THEN JNull ELSE ToValue(ty.of, v[1])
    [] ty.k = "vec" -> JArr(ToElems(ty.of, v))
    [] ty.k = "struct" -> JObj(ToMembers(ty.fields, v))
ToElems(ty, vs) ==
  IF Len(vs) = 0 THEN <<>>
  ELSE <<ToValue(ty, vs[1])>> \o ToElems(ty, Tail(vs))
ToMembers(fields, vs) ==
  IF Len(fields) = 0 THEN <<>>
  ELSE << <<fields[1].name, ToValue(fields[1].ty, vs[1])>> >>
         \o ToMembers(Tail(fields), Tail(vs))

Words == {W("a"), W("b")}
RECURSIVE SeqsUpTo(_, _)
SeqsUpTo(S, n) ==
  IF n = 0 THEN {<<>>}
  ELSE LET shorter == SeqsUpTo(S, n - 1)
       IN  shorter \cup {<<x>> \o q : x \in S, q \in {r \in shorter : Len(r) = n - 1}}

RECURSIVE Instances(_), FieldInstances(_)
Instances(ty) ==
  CASE ty.k = "string" -> Words
    [] ty.k = "option" -> {<<>>} \cup {<<x>> : x \in Instances(ty.of)}
    [] ty.k = "vec" -> SeqsUpTo(Instances(ty.of), MaxLen)
    [] ty.k = "struct" -> FieldInstances(ty.fields)
FieldInstances(fields) ==
  IF Len(fields) = 0 THEN {<<>>}
  ELSE {<<x>> \o rest : x \in Instances(fields[1].ty),
                         rest \in FieldInstances(Tail(fields))}

\* the three physical encodings of an instance as the value of `content`
StringForm(ty, v) == JStr(Encode(ToValue(ty, v)))
NativeForm(ty, v) == ToValue(ty, v)

\* one instance of each shape for the response bodies
Sample(ty) ==
  IF ty.k = "struct" THEN <<W("a"), <<<<W("b")>>>>, <<>>>> ELSE <<W("a"), W("b")>>
ValidContents(ty) == {StringForm(ty, Sample(ty)), NativeForm(ty, Sample(ty))}
\* payloads that are no instance of either shape: the encodings the visitor
\* has no method for, text that is no JSON, JSON of another shape
InvalidContents ==
  {JNull, JNum(7), JBool(TRUE), JStr(W("ok")), JStr(<<P("{")>>),
   JStr(Encode(JNum(7))), JObj(<<>>), JArr(<<JNum(7)>>)}
RefusalText == W("cannot comply")
ErrorText == W("invalid api key")

OptMembers(key, vals) == {<<>>} \cup {<< <<W(key), v>> >> : v \in vals}
Messages(ty) ==
  {JObj(c \o r) : c \in OptMembers("content", ValidContents(ty) \cup InvalidContents),
                  r \in OptMembers("refusal", {JNull, JStr(RefusalText)})}
    \cup {JNull}
ChoiceOf(m) == JObj(<< <<W("message"), m>> >>)
FirstChoices(ty) == {ChoiceOf(m) : m \in Messages(ty)} \cup {JObj(<<>>)}
\* the choices after the first: an answer, a refusal, a message with neither
\* key, a payload that does not decode
LaterChoices(ty) ==
  {ChoiceOf(JObj(<< <<W("content"), StringForm(ty, Sample(ty))>> >>)),
   ChoiceOf(JObj(<< <<W("refusal"), JStr(RefusalText)>> >>)),
   ChoiceOf(JObj(<<>>)),
   ChoiceOf(JObj(<< <<W("content"), JNum(7)>> >>))}
ChoiceLists(ty) ==
  {<<>>} \cup {<<c>> \o rest : c \in FirstChoices(ty),
                               rest \in SeqsUpTo(LaterChoices(ty), MaxChoices - 1)}
ErrorValues ==
  {JObj(<< <<W("message"), JStr(ErrorText)>> >>), JObj(<<>>), JStr(ErrorText)}
Bodies(ty) ==
  {JObj(c \o e) :
     c \in OptMembers("choices", {JArr(l) : l \in ChoiceLists(ty)} \cup {JNull}),
     e \in OptMembers("error", ErrorValues)}
    \cup {JNull}

VARIABLES pc, client, T, request, body, response, outcome, calls, sent,
          root_schema, schema_value, instance

vars == <<pc, client, T, request, body, response, outcome, calls, sent,
          root_schema, schema_value, instance>>
call == <<T, request, body, response, outcome>>
schema == <<root_schema, schema_value>>

NoShape == [k |-> "none"]
NoJson == [t |-> "none"]
NoResponse == [variant |-> "none"]
NoRoot == [none |-> TRUE]

(***************************************************************************)
(* The client and one call_schema after another.                           *)
(***************************************************************************)
\* OpenAiClient::new
new(endpoint, model, api_key) ==
  [endpoint |-> endpoint, model |-> model, api_key |-> api_key,
   system_role |-> <<>>]

Init ==
  /\ client = new(W("https://api"), W("gpt-4o"), W("apikey"))
  /\ pc = "idle"
  /\ T = NoShape /\ request = NoJson /\ body = NoJson
  /\ response = NoResponse /\ outcome = NoOutcome
  /\ calls = 0 /\ sent = 0
  /\ root_schema = NoRoot /\ schema_value = NoJson /\ instance = <<>>

\* OpenAiClient::with_system_role, before the first call
with_system_role(role) ==
  /\ pc = "idle" /\ calls = 0 /\ Len(client.system_role) = 0
  /\ client' = [client EXCEPT !.system_role = <<role>>]
  /\ UNCHANGED <<pc, call, calls, sent, schema, instance>>

\* call_schema up to send().await: the schema, the name and the body are
\* built and the one request is posted
Send(ty, user_prompt) ==
  /\ pc = "idle" /\ calls < MaxCalls
  /\ T' = ty
  /\ request' = RequestBody(client, ty, user_prompt)
  /\ calls' = calls + 1
  /\ sent' = sent + 1
  /\ pc' = "sending"
  /\ UNCHANGED <<client, body, response, outcome, schema, instance>>

\* send().await? fails: the transport's error is returned
SendFails ==
  /\ pc = "sending"
  /\ outcome' = ErrReqwest(FALSE)
  /\ pc' = "done"
  /\ UNCHANGED <<client, T, request, body, response, calls, sent, schema, instance>>

\* send().await? yields the response
SendOk ==
  /\ pc = "sending"
  /\ pc' = "reading"
  /\ UNCHANGED <<client, call, calls, sent, schema, instance>>

\* res.json().await? fails while reading the body
ReadFails ==
  /\ pc = "reading"
  /\ outcome' = ErrReqwest(FALSE)
  /\ pc' = "done"
  /\ UNCHANGED <<client, T, request, body, response, calls, sent, schema, instance>>

\* res.json().await? reads body b and decodes it as OpenAIResponse<T>
Decode(b) ==
  LET r == json(T, b)
  IN  /\ body' = b
      /\ IF r.ok
         THEN response' = r.val /\ pc' = "matching" /\ outcome' = outcome
         ELSE response' = response /\ pc' = "done" /\ outcome' = ErrReqwest(TRUE)
ReadJson ==
  /\ pc = "reading"
  /\ \E b \in Bodies(T) : Decode(b)
  /\ UNCHANGED <<client, T, request, calls, sent, schema, instance>>

\* fault: a refusal is retried with a second request
Match_Retry ==
  /\ pc = "matching"
  /\ IF Panics(response)
     THEN pc' = "panicked" /\ outcome' = outcome /\ sent' = sent
     ELSE IF MatchResponse(response).kind = "Refusal"
          THEN pc' = "sending" /\ outcome' = outcome /\ sent' = sent + 1
     ELSE pc' = "done" /\ outcome' = MatchResponse(response) /\ sent' = sent
  /\ UNCHANGED <<client, T, request, body, response, calls, schema, instance>>

\* the match on the response: a result is returned, or choices[0] panics
Match ==
  /\ pc = "matching"
  /\ IF Panics(response)
     THEN pc' = "panicked" /\ outcome' = outcome
     ELSE pc' = "done" /\ outcome' = MatchResponse(response)
  /\ UNCHANGED <<client, T, request, body, response, calls, sent, schema, instance>>

\* the caller has the result; nothing of the call is kept
Return ==
  /\ pc = "done"
  /\ pc' = "idle"
  /\ T' = NoShape /\ request' = NoJson /\ body' = NoJson
  /\ response' = NoResponse /\ outcome' = NoOutcome
  /\ UNCHANGED <<client, calls, sent, schema, instance>>

Prompts == {W("Explain the errors")}
Next ==
  \/ with_system_role(W("You are a helpful English tutor."))
  \/ \E ty \in TargetShapes, p \in Prompts : Send(ty, p)
  \/ SendFails
  \/ SendOk
  \/ ReadFails
  \/ ReadJson
  \/ Match
  \/ Return

Spec == Init /\ [][Next]_vars

(***************************************************************************)
(* generate_schema on the schemas schemars can derive: leaves, and the     *)
(* schemas of structs, maps, Options, Vecs, tuples and enums around them.  *)
(***************************************************************************)
StringSchema == TypedSchema(Single("string"), <<>>, <<>>)
NullSchema == TypedSchema(Single("null"), <<>>, <<>>)
RefSchema ==
  ObjectSchema(SchemaObject(<<>>, <<>>, <<>>, <<>>, <<"#/definitions/Inner">>))
Combinator(all, any, one, not) ==
  ObjectSchema(SchemaObject(<<>>, <<>>, <<>>,
                            <<SubschemaValidation(all, any, one, not)>>, <<>>))
LeafSchemas ==
  {StringSchema, BoolSchema(TRUE), RefSchema,
   TypedSchema(Single("object"), <<>>, <<>>)}
SchemasAround(c) ==
  {\* struct { a: C, b: String } with `a` not required by the derivation
   TypedSchema(Single("object"),
               <<ObjectValidation(<< <<"a", c>>, <<"b", StringSchema>> >>,
                                  {"b"}, <<>>)>>, <<>>),
   \* HashMap<String, C> and Option<HashMap<String, C>>
   TypedSchema(Single("object"), <<ObjectValidation(<<>>, {}, <<c>>)>>, <<>>),
   TypedSchema(Many(<<"object", "null">>),
               <<ObjectValidation(<<>>, {}, <<c>>)>>, <<>>),
   \* Vec<C>, Option<Vec<C>> and (C, String)
   TypedSchema(Single("array"), <<>>, <<ArrayValidation(<<Single(c)>>)>>),
   TypedSchema(Many(<<"array", "null">>), <<>>,
               <<ArrayValidation(<<Single(c)>>)>>),
   TypedSchema(Single("array"), <<>>,
               <<ArrayValidation(<<Many(<<c, StringSchema>>)>>)>>),
   \* the combinators
   Combinator(<<<<c>>>>, <<>>, <<>>, <<>>),
   Combinator(<<>>, <<<<c, NullSchema>>>>, <<>>, <<>>),
   Combinator(<<>>, <<>>, <<<<c, StringSchema>>>>, <<>>),
   Combinator(<<>>, <<>>, <<>>, <<c>>)}
RECURSIVE SchemasOfDepth(_)
SchemasOfDepth(d) ==
  IF d = 0 THEN LeafSchemas
  ELSE LET inner == SchemasOfDepth(d - 1)
       IN  inner \cup UNION {SchemasAround(c) : c \in inner}
DefinitionMaps ==
  {<<>>,
   << <<"Inner", TypedSchema(Single("object"),
                             <<ObjectValidation(<< <<"x", StringSchema>> >>,
                                                {}, <<>>)>>, <<>>)>> >>,
   << <<"Inner", BoolSchema(TRUE)>> >>}
RootSchemas ==
  {RootSchema(sch.obj, defs) :
     sch \in {x \in SchemasOfDepth(MaxDepth) : x.s = "object"},
     defs \in DefinitionMaps}

SchemaInit ==
  /\ client = new(W("https://api"), W("gpt-4o"), W("apikey"))
  /\ pc = "derived"
  /\ T = NoShape /\ request = NoJson /\ body = NoJson
  /\ response = NoResponse /\ outcome = NoOutcome
  /\ calls = 0 /\ sent = 0
  /\ root_schema \in RootSchemas /\ schema_value = NoJson /\ instance = <<>>

\* generate_schema::<T>() on the derived RootSchema
Generate ==
  /\ pc = "derived"
  /\ schema_value' = generate_schema(root_schema)
  /\ pc' = "generated"
  /\ UNCHANGED <<client, call, calls, sent, root_schema, instance>>

SchemaNext == Generate
SchemaSpec == SchemaInit /\ [][SchemaNext]_vars

(***************************************************************************)
(* The decoding of one instance of a target shape sent in each of the      *)
(* three physical encodings, in the message of a success envelope.  The    *)
(* message may carry, beside the answer, the `role` and the null `refusal` *)
(* of the upstream API.                                                    *)
(***************************************************************************)
MessageExtras ==
  {<<>>, << <<W("role"), JStr(W("assistant"))>>, <<W("refusal"), JNull>> >>}
Envelope(content, extras) ==
  JObj(<< <<W("choices"),
            JArr(<<ChoiceOf(JObj(<< <<W("content"), content>> >> \o extras))>>)>> >>)

PayloadInit ==
  /\ client = new(W("https://api"), W("gpt-4o"), W("apikey"))
  /\ pc = "instance"
  /\ T \in TargetShapes
  /\ instance \in {<<v>> : v \in Instances(T)}
  /\ request = NoJson /\ body = NoJson
  /\ response = NoResponse /\ outcome = NoOutcome
  /\ calls = 0 /\ sent = 0
  /\ root_schema = NoRoot /\ schema_value = NoJson

Encoded(content) ==
  /\ pc = "instance"
  /\ \E extras \in MessageExtras : body' = Envelope(content, extras)
  /\ pc' = "encoded"
  /\ UNCHANGED <<client, T, request, response, outcome, calls, sent, schema, instance>>
\* the instance as a JSON-encoded string
AsString == Encoded(StringForm(T, instance[1]))
\* the instance of a struct as a native JSON object
AsObject == T.k = "struct" /\ Encoded(NativeForm(T, instance[1]))
\* the instance of an array-like shape as a native JSON array
AsArray == T.k = "vec" /\ Encoded(NativeForm(T, instance[1]))

\* res.json() on the envelope
ReadEncoded ==
  /\ pc = "encoded"
  /\ Decode(body)
  /\ UNCHANGED <<client, T, request, calls, sent, schema, instance>>

PayloadNext == AsString \/ AsObject \/ AsArray \/ ReadEncoded \/ Match
PayloadSpec == PayloadInit /\ [][PayloadNext]_vars

(***************************************************************************)
(* The response body as JSON, for the statements below.                    *)
(***************************************************************************)
ChoicesJson(b) ==
  IF HasKey(b, W("choices")) /\ Get(b, W("choices")).t = "arr"
  THEN Get(b, W("choices")).a
  ELSE <<>>
HasChoicesArray(b) == HasKey(b, W("choices")) /\ Get(b, W("choices")).t = "arr"
HasFirstMessage(b) ==
  /\ Len(ChoicesJson(b)) > 0
  /\ HasKey(ChoicesJson(b)[1], W("message"))
  /\ Get(ChoicesJson(b)[1], W("message")).t = "obj"
FirstMessageJson(b) == Get(ChoicesJson(b)[1], W("message"))
HasContent(b) == HasFirstMessage(b) /\ HasKey(FirstMessageJson(b), W("content"))
HasRefusal(b) == HasFirstMessage(b) /\ HasKey(FirstMessageJson(b), W("refusal"))
ContentJson(b) == Get(FirstMessageJson(b), W("content"))
RefusalJson(b) == Get(FirstMessageJson(b), W("refusal"))
\* the body has the shape of the success envelope / of the error envelope
MatchesSuccess(ty, b) == FromValue(ChatGPTResponse(ty), b).ok
MatchesError(b) == FromValue(OpenAIError, b).ok
ErrorMessageJson(b) == Get(Get(b, W("error")), W("message")).s
\* every choice after the first decodes as a Choice<T>
LaterChoicesDecode(ty, b) ==
  \A i \in 2..Len(ChoicesJson(b)) : FromValue(Choice(ty), ChoicesJson(b)[i]).ok
\* what a body that is no success envelope comes to
Otherwise(b) ==
  IF MatchesError(b) THEN ErrOpenAIError(ErrorMessageJson(b)) ELSE ErrReqwest(TRUE)
\* the body with its choices cut down to the first
FirstChoiceOnly(b) ==
  JObj([i \in 1..Len(b.o) |->
          IF b.o[i][1] = W("choices")
          THEN <<W("choices"), JArr(<<ChoicesJson(b)[1]>>)>>
          ELSE b.o[i]])
\* the result of a call that reads body b
ResultOf(ty, b) ==
  LET r == json(ty, b)
  IN  IF r.ok THEN MatchResponse(r.val) ELSE ErrReqwest(TRUE)

(***************************************************************************)
(* The objects of a schema document: the document, and every schema under  *)
(* properties, items, allOf, anyOf, oneOf, not and definitions.            *)
(***************************************************************************)
RECURSIVE SchemaNodes(_)
ValuesUnder(n, key) ==
  IF ~HasKey(n, W(key)) THEN {}
  ELSE LET v == Get(n, W(key))
       IN  IF key \in {"properties", "definitions"}
           THEN {v.o[i][2] : i \in 1..Len(v.o)}
           ELSE IF v.t = "arr" THEN {v.a[i] : i \in 1..Len(v.a)}
           ELSE {v}
SchemaNodes(n) ==
  IF n.t # "obj" THEN {}
  ELSE {n} \cup UNION {SchemaNodes(c) :
         c \in UNION {ValuesUnder(n, key) :
                        key \in {"properties", "definitions", "items", "allOf",
                                 "anyOf", "oneOf", "not"}}}
ObjectTyped(n) ==
  /\ HasKey(n, W("type"))
  /\ LET ty == Get(n, W("type"))
     IN  \/ ty = JStr(W("object"))
         \/ ty.t = "arr" /\ \E i \in 1..Len(ty.a) : ty.a[i] = JStr(W("object"))
PropertyNames(n) ==
  IF HasKey(n, W("properties"))
  THEN {Get(n, W("properties")).o[i][1] : i \in 1..Len(Get(n, W("properties")).o)}
  ELSE {}
\* an absent `required` is read as the empty set
RequiredNames(n) ==
  IF HasKey(n, W("required"))
  THEN {Get(n, W("required")).a[i].s : i \in 1..Len(Get(n, W("required")).a)}
  ELSE {}
Closed(n) ==
  /\ HasKey(n, W("additionalProperties"))
  /\ Get(n, W("additionalProperties")) = JBool(FALSE)
  /\ RequiredNames(n) = PropertyNames(n)

(***************************************************************************)
(* C1.  In the schema generate_schema produces, every object-typed node    *)
(* reached through properties, array items, combinator branches and        *)
(* definitions has additionalProperties = false and a required set equal   *)
(* to its property names.  Checked under SchemaSpec.                       *)
(***************************************************************************)
C1_EveryObjectClosed ==
  pc = "generated" =>
    \A n \in SchemaNodes(schema_value) : ObjectTyped(n) => Closed(n)

(***************************************************************************)
(* C2.  A success envelope with an empty choices list yields the           *)
(* malformed-response error; the call never panics on it.                  *)
(***************************************************************************)
C2_EmptyChoicesMalformed ==
  (HasChoicesArray(body) /\ Len(ChoicesJson(body)) = 0) =>
    /\ pc # "panicked"
    /\ pc = "done" => outcome = ErrReqwest(TRUE)

(***************************************************************************)
(* C3.  As claimed: a first message with both the content and the refusal  *)
(* key, or with neither, yields the malformed-response error.              *)
(***************************************************************************)
C3_BothOrNeitherMalformed ==
  (pc = "done" /\ HasFirstMessage(body)
     /\ (HasContent(body) <=> HasRefusal(body)))
    => outcome = ErrReqwest(TRUE)

(***************************************************************************)
(* C3, amended.  A first message with neither key never yields a success   *)
(* or a refusal: the body is no success envelope.  A first message with    *)
(* both keys is an answer when its content decodes (and the later choices  *)
(* decode), else a refusal when its refusal is a string (and the later     *)
(* choices decode), else no success envelope either.  No such message      *)
(* makes the call panic.                                                   *)
(***************************************************************************)
C3_BothOrNeither ==
  /\ HasFirstMessage(body) => pc # "panicked"
  /\ (pc = "done" /\ HasFirstMessage(body) /\ ~HasContent(body) /\ ~HasRefusal(body))
       => outcome = Otherwise(body)
  /\ (pc = "done" /\ HasContent(body) /\ HasRefusal(body))
       => outcome =
            IF ~LaterChoicesDecode(T, body) THEN Otherwise(body)
            ELSE IF deserialize_content(T, ContentJson(body)).ok
                 THEN Ok(deserialize_content(T, ContentJson(body)).val)
            ELSE IF RefusalJson(body).t = "str"
                 THEN ErrRefusal(RefusalJson(body).s)
            ELSE Otherwise(body)
C3_Witness ==
  /\ pc = "done" /\ HasContent(body) /\ HasRefusal(body)
  /\ RefusalJson(body).t = "str"
  /\ outcome.kind = "Ok"

(***************************************************************************)
(* C4.  Round trip: an instance sent as a JSON-encoded string, as a native *)
(* object or as a native array is returned by the call, equal to the       *)
(* instance, in every one of the encodings.  Checked under PayloadSpec.    *)
(***************************************************************************)
C4_RoundTrip ==
  Len(instance) = 1 =>
    /\ pc # "panicked"
    /\ pc = "done" => outcome = Ok(instance[1])
C4_Witness ==
  /\ pc = "done" /\ Len(instance) = 1 /\ T.k = "vec"
  /\ Len(instance[1]) = MaxLen
  /\ ContentJson(body).t = "arr"
  /\ outcome = Ok(instance[1])

C6_Classification ==
  /\ (pc = "done" /\ body # NoJson /\ MatchesSuccess(T, body))
       => outcome.kind \in {"Ok", "Refusal"}
  /\ (body # NoJson /\ ~MatchesSuccess(T, body) /\ ~MatchesError(body))
       => /\ pc = "done"
          /\ outcome = ErrReqwest(TRUE)
  /\ (pc = "done" /\ body = NoJson) => outcome = ErrReqwest(FALSE)
C6_Witness ==
  /\ pc = "done" /\ HasFirstMessage(body) /\ HasKey(body, W("error"))
  /\ ~MatchesSuccess(T, body) /\ ~MatchesError(body)
  /\ outcome = ErrReqwest(TRUE)

(***************************************************************************)
(* C7.  As claimed: an answer payload that is a number, a boolean or null, *)
(* or that does not parse into the target shape, yields the payload decode *)
(* error (the decode error of json() is the only candidate) and no other   *)
(* error kind.                                                             *)
(***************************************************************************)
BadPayload(ty, b) == HasContent(b) /\ ~deserialize_content(ty, ContentJson(b)).ok
C7_BadPayloadIsDecodeError ==
  (pc = "done" /\ BadPayload(T, body)) => outcome = ErrReqwest(TRUE)

(***************************************************************************)
(* C7, amended.  Such a payload never yields a success value and never a   *)
(* panic.  The call returns the Refusal when the same message carries a    *)
(* string refusal and the later choices decode, the OpenAIError when the   *)
(* body also matches the error envelope, and otherwise the decode error of *)
(* json(), the same error a malformed response gets.                       *)
(***************************************************************************)
C7_BadPayload ==
  (body # NoJson /\ BadPayload(T, body)) =>
    /\ pc # "panicked"
    /\ pc = "done" =>
         outcome =
           IF HasRefusal(body) /\ RefusalJson(body).t = "str"
              /\ LaterChoicesDecode(T, body)
           THEN ErrRefusal(RefusalJson(body).s)
           ELSE Otherwise(body)
C7_Witness ==
  /\ pc = "done" /\ BadPayload(T, body)
  /\ ContentJson(body).t = "null" /\ HasRefusal(body)
  /\ outcome = ErrRefusal(RefusalText)

(***************************************************************************)
(* C8.  When the first choice's message of a success envelope is a refusal *)
(* (a string refusal and no content that decodes), the call returns the    *)
(* Refusal error whose text is exactly the refusal string of the body.     *)
(***************************************************************************)
C8_RefusalVerbatim ==
  (pc = "done" /\ MatchesSuccess(T, body) /\ HasRefusal(body)
     /\ RefusalJson(body).t = "str"
     /\ ~(HasContent(body) /\ deserialize_content(T, ContentJson(body)).ok))
    => outcome = ErrRefusal(RefusalJson(body).s)
C8_Witness ==
  /\ pc = "done" /\ ~HasContent(body) /\ HasRefusal(body)
  /\ Len(ChoicesJson(body)) = MaxChoices
  /\ outcome = ErrRefusal(RefusalText)

(***************************************************************************)
(* C9.  One request/response cycle per call: a request is sent only as a   *)
(* call starts, one per call; a call that has its outcome only returns it, *)
(* with nothing of the call kept; and no step of a call changes the        *)
(* client.                                                                 *)
(***************************************************************************)
C9_OneCycle ==
  [][/\ sent = calls /\ sent' = calls'
     /\ sent' # sent => (pc = "idle" /\ sent' = sent + 1)
     /\ pc = "done" =>
          /\ outcome # NoOutcome
          /\ pc' = "idle" /\ outcome' = NoOutcome /\ body' = NoJson
          /\ response' = NoResponse /\ request' = NoJson /\ T' = NoShape
     /\ calls > 0 => client' = client]_vars
C9_Witness ==
  /\ pc = "done" /\ calls = MaxCalls /\ sent = MaxCalls
  /\ outcome.kind = "Refusal"

(***************************************************************************)
(* C10.  The outcome on a success envelope with a non-empty choices list   *)
(* is that of its first choice alone: the call returns what it returns on  *)
(* the same body with the later choices removed.                           *)
(***************************************************************************)
C10_FirstChoiceAlone ==
  (pc = "done" /\ Len(ChoicesJson(body)) > 0)
    => outcome = ResultOf(T, FirstChoiceOnly(body))
====
